---------------------------- MODULE Spec2Model ----------------------------
(***************************************************************************)
(* A model of converter/src/rdf_converter.mts: the CSV/JSON to Zotero RDF  *)
(* converter.                                                              *)
(*                                                                         *)
(* Strings are sequences of code units.  A code unit is written as a       *)
(* one-character TLA+ string (",", "a", ...); "U+0000" stands for the      *)
(* control character NUL, which the XML character filter removes.  A       *)
(* literal of the source that holds none of the characters the code tests  *)
(* for is kept as one element ("Colophon: "), so concatenation is \o.      *)
(***************************************************************************)
EXTENDS Integers, Sequences, FiniteSets, TLC

VARIABLES
    argv,       \* process.argv
    disk,       \* the file system: path -> content
    pc,         \* position of the running script / of the function under test
    idCounter,  \* the module-level counter behind newId
    jsonData,   \* the ZoteroData held by a conversion
    console,    \* what was printed: sequence of "usage", "error", "success"
    exitCode,   \* exit status of the process, "running" before it ends
    writes,     \* the order of the effects of writeOutputs
    input,      \* argument of the function under test
    output,     \* its return value
    history     \* first result of parseCsvToJson per input (repeat runs)

vars == <<argv, disk, pc, idCounter, jsonData, console, exitCode, writes,
          input, output, history>>

----------------------------------------------------------------------------
(* Strings *)

DQ == "\""
NUL == "U+0000"

\* The value undefined; `${undefined}` and an object key made of it both
\* read "undefined".
UNDEFINED == <<"undefined">>

\* Boolean(v) for a string or undefined.
Truthy(v) == v # <<>> /\ v # UNDEFINED

\* Sequences over S of length at most n.
SeqUpTo(S, n) == UNION {[1..k -> S] : k \in 0..n}

\* Sequences over S of length 1..n.
Seq1UpTo(S, n) == UNION {[1..k -> S] : k \in 1..n}

RECURSIVE Flatten(_)
Flatten(ss) == IF ss = <<>> THEN <<>> ELSE Head(ss) \o Flatten(Tail(ss))

\* Array.prototype.join
RECURSIVE Join(_, _)
Join(ss, sep) ==
    IF ss = <<>> THEN <<>>
    ELSE IF Len(ss) = 1 THEN ss[1]
    ELSE ss[1] \o sep \o Join(Tail(ss), sep)

\* String.prototype.split(c) for a one-character separator: always at least
\* one piece.
RECURSIVE SplitFrom(_, _, _, _, _)
SplitFrom(s, c, i, start, acc) ==
    IF i > Len(s) THEN Append(acc, SubSeq(s, start, Len(s)))
    ELSE IF s[i] = c
    THEN SplitFrom(s, c, i + 1, i + 1, Append(acc, SubSeq(s, start, i - 1)))
    ELSE SplitFrom(s, c, i + 1, start, acc)

Split(s, c) == SplitFrom(s, c, 1, 1, <<>>)

Includes(s, c) == \E i \in 1..Len(s) : s[i] = c

\* White space as String.prototype.trim sees it, among the modelled units.
IsSpace(c) == c \in {" ", "\t", "\r", "\n"}

RECURSIVE TrimStart(_)
TrimStart(s) ==
    IF s # <<>> /\ IsSpace(Head(s)) THEN TrimStart(Tail(s)) ELSE s

RECURSIVE TrimEnd(_)
TrimEnd(s) ==
    IF s # <<>> /\ IsSpace(s[Len(s)]) THEN TrimEnd(SubSeq(s, 1, Len(s) - 1))
    ELSE s

Trim(s) == TrimEnd(TrimStart(s))

MapSeq(Op(_), ss) == [i \in 1..Len(ss) |-> Op(ss[i])]

FilterSeq(Test(_), ss) == SelectSeq(ss, Test)

\* String.prototype.toLowerCase on the modelled units.
LowerChar(c) ==
    CASE c = "B" -> "b" [] c = "C" -> "c" [] c = "S" -> "s" [] c = "V" -> "v"
      [] OTHER -> c

ToLowerCase(s) == [i \in 1..Len(s) |-> LowerChar(s[i])]

\* The character class [^\x09\x0A\x0D\x20-\uD7FF\uE000-\uFFFD]: of the
\* modelled units only NUL is outside the allowed ranges.
Disallowed(c) == c = NUL

StripDisallowed(s) == SelectSeq(s, LAMBDA c : ~Disallowed(c))

\* s.replace(/c/g, rep)
RECURSIVE ReplaceAll(_, _, _)
ReplaceAll(s, c, rep) ==
    IF s = <<>> THEN <<>>
    ELSE (IF Head(s) = c THEN rep ELSE <<Head(s)>>) \o ReplaceAll(Tail(s), c, rep)

\* Decimal digits of a natural number, as `${n}` prints it.
RECURSIVE Decimal(_)
Decimal(n) ==
    LET d == <<"0", "1", "2", "3", "4", "5", "6", "7", "8", "9">>
    IN IF n < 10 THEN <<d[n + 1]>> ELSE Append(Decimal(n \div 10), d[(n % 10) + 1])

----------------------------------------------------------------------------
(* parseCSVLine *)

RECURSIVE parseCSVLineFrom(_, _, _, _, _)
parseCSVLineFrom(line, i, insideQuotes, currentValue, result) ==
    IF i > Len(line) THEN Append(result, currentValue)
    ELSE LET char == line[i]
             nextIsQuote == i + 1 <= Len(line) /\ line[i + 1] = DQ
         IN IF char = DQ /\ ~insideQuotes
            THEN parseCSVLineFrom(line, i + 1, TRUE, currentValue, result)
            ELSE IF char = DQ /\ nextIsQuote
            THEN parseCSVLineFrom(line, i + 2, insideQuotes,
                                  Append(currentValue, DQ), result)
            ELSE IF char = DQ /\ insideQuotes
            THEN parseCSVLineFrom(line, i + 1, FALSE, currentValue, result)
            ELSE IF char = "," /\ ~insideQuotes
            THEN parseCSVLineFrom(line, i + 1, insideQuotes, <<>>,
                                  Append(result, currentValue))
            ELSE parseCSVLineFrom(line, i + 1, insideQuotes,
                                  Append(currentValue, char), result)

\* A tokenizer that has no doubled-quote branch.
RECURSIVE parseCSVLineNoEscapeFrom(_, _, _, _, _)
parseCSVLineNoEscapeFrom(line, i, insideQuotes, currentValue, result) ==
    IF i > Len(line) THEN Append(result, currentValue)
    ELSE LET char == line[i]
         IN IF char = DQ
            THEN parseCSVLineNoEscapeFrom(line, i + 1, ~insideQuotes,
                                          currentValue, result)
            ELSE IF char = "," /\ ~insideQuotes
            THEN parseCSVLineNoEscapeFrom(line, i + 1, insideQuotes, <<>>,
                                          Append(result, currentValue))
            ELSE parseCSVLineNoEscapeFrom(line, i + 1, insideQuotes,
                                          Append(currentValue, char), result)

parseCSVLine_NoEscape(line) == parseCSVLineNoEscapeFrom(line, 1, FALSE, <<>>, <<>>)

parseCSVLine(line) == parseCSVLineFrom(line, 1, FALSE, <<>>, <<>>)

----------------------------------------------------------------------------
(* parsePersonList *)

\* const [lastName, firstName] = trimmed.split(',').map(s => s.trim()):
\* the first two pieces; a piece that is missing is undefined.
personOfEntry(trimmed) ==
    IF Includes(trimmed, ",")
    THEN LET parts == MapSeq(Trim, Split(trimmed, ","))
         IN [lastName |-> parts[1], firstName |-> parts[2]]
    ELSE [lastName |-> trimmed, firstName |-> <<>>]

RECURSIVE peopleOfParts(_)
peopleOfParts(personParts) ==
    IF personParts = <<>> THEN <<>>
    ELSE LET trimmed == Trim(Head(personParts))
         IN (IF trimmed = <<>> THEN <<>> ELSE <<personOfEntry(trimmed)>>)
            \o peopleOfParts(Tail(personParts))

parsePersonList(personString) ==
    IF personString = <<>> THEN <<>>
    ELSE peopleOfParts(IF Includes(personString, ";")
                       THEN Split(personString, ";")
                       ELSE <<personString>>)

----------------------------------------------------------------------------
(* escapeXml *)

AMP == <<"&", "a", "m", "p", ";">>
LT == <<"&", "l", "t", ";">>
GT == <<"&", "g", "t", ";">>
QUOT == <<"&", "q", "u", "o", "t", ";">>
APOS == <<"&", "a", "p", "o", "s", ";">>

escapeXml(str) ==
    IF ~Truthy(str) THEN <<>>
    ELSE ReplaceAll(ReplaceAll(ReplaceAll(ReplaceAll(ReplaceAll(
        StripDisallowed(str), "&", AMP), "<", LT), ">", GT), DQ, QUOT), "'", APOS)

----------------------------------------------------------------------------
(* localeCompare and the sorts *)

\* Collation order of the modelled units (root collation: white space,
\* punctuation, symbols, digits, letters); NUL is ignorable.
CollationOrder ==
    <<"\t", "\n", "\r", " ", "_", "-", ",", ";", ":", ".", "'", DQ, "/", "&",
      "<", ">", "0", "1", "2", "3", "4", "5", "6", "7", "8", "9",
      "a", "b", "c", "d", "e", "g", "k", "l", "m", "n", "o", "p", "q", "s",
      "t", "u", "v", "y">>

CollationRank(c) ==
    LET l == LowerChar(c)
    IN IF \E i \in 1..Len(CollationOrder) : CollationOrder[i] = l
       THEN CHOOSE i \in 1..Len(CollationOrder) : CollationOrder[i] = l
       ELSE Len(CollationOrder) + 1

\* Lexicographic comparison of two sequences of numbers: -1, 0 or 1.
RECURSIVE LexCompare(_, _)
LexCompare(a, b) ==
    IF a = <<>> /\ b = <<>> THEN 0
    ELSE IF a = <<>> THEN -1
    ELSE IF b = <<>> THEN 1
    ELSE IF Head(a) < Head(b) THEN -1
    ELSE IF Head(a) > Head(b) THEN 1
    ELSE LexCompare(Tail(a), Tail(b))

\* a.localeCompare(b): letters and digits first, case as a tie-break
\* (lower case first).
localeCompare(a, b) ==
    LET sa == StripDisallowed(a)
        sb == StripDisallowed(b)
        primary == LexCompare(MapSeq(CollationRank, sa), MapSeq(CollationRank, sb))
        caseOf(c) == IF LowerChar(c) = c THEN 0 ELSE 1
    IN IF primary # 0 THEN primary
       ELSE LexCompare(MapSeq(caseOf, sa), MapSeq(caseOf, sb))

\* Comparison of identifiers by their numeric value: shorter digit strings
\* first.
numericCompare(a, b) ==
    IF Len(a) # Len(b) THEN (IF Len(a) < Len(b) THEN -1 ELSE 1)
    ELSE localeCompare(a, b)

\* Code unit order, the default order of Array.prototype.sort.
CodeUnitOrder ==
    <<"\t", "\n", "\r", " ", DQ, "&", "'", ",", "-", ".", "/",
      "0", "1", "2", "3", "4", "5", "6", "7", "8", "9", ":", ";", "<", ">",
      "B", "C", "S", "V", "_",
      "a", "b", "c", "d", "e", "g", "k", "l", "m", "n", "o", "p", "q", "s",
      "t", "u", "v", "y">>

CodeUnitRank(c) ==
    IF c = NUL THEN 0
    ELSE IF \E i \in 1..Len(CodeUnitOrder) : CodeUnitOrder[i] = c
    THEN CHOOSE i \in 1..Len(CodeUnitOrder) : CodeUnitOrder[i] = c
    ELSE Len(CodeUnitOrder) + 1

defaultCompare(a, b) == LexCompare(MapSeq(CodeUnitRank, a), MapSeq(CodeUnitRank, b))

\* Array.prototype.sort is stable: x goes behind everything it does not
\* precede.
RECURSIVE InsertSorted(_, _, _)
InsertSorted(Cmp(_, _), x, sorted) ==
    IF sorted = <<>> THEN <<x>>
    ELSE IF Cmp(x, Head(sorted)) < 0 THEN <<x>> \o sorted
    ELSE <<Head(sorted)>> \o InsertSorted(Cmp, x, Tail(sorted))

RECURSIVE SortFrom(_, _, _)
SortFrom(Cmp(_, _), rest, sorted) ==
    IF rest = <<>> THEN sorted
    ELSE SortFrom(Cmp, Tail(rest), InsertSorted(Cmp, Head(rest), sorted))

Sort(Cmp(_, _), xs) == SortFrom(Cmp, xs, <<>>)

compareById(a, b) == localeCompare(a.id, b.id)

compareByNumericId(a, b) == numericCompare(a.id, b.id)

comparePersons(a, b) ==
    LET byLast == localeCompare(a.lastName, b.lastName)
    IN IF byLast # 0 THEN byLast ELSE localeCompare(a.firstName, b.firstName)

----------------------------------------------------------------------------
(* createZoteroItemFromCsv *)

\* The column names the record is read by.
K_sn == <<"s", "n">>
K_type == <<"t", "y", "p", "e">>
K_title == <<"t", "i", "t", "l", "e">>
K_language == <<"l", "a", "n", "g", "u", "a", "g", "e">>
K_year == <<"y", "e", "a", "r">>
K_digitised_url == <<"d", "i", "g", "i", "t", "i", "s", "e", "d", "_", "u", "r", "l">>
K_author == <<"a", "u", "t", "h", "o", "r">>
K_classification == <<"c", "l", "a", "s", "s", "i", "f", "i", "c", "a", "t", "i", "o", "n">>
K_copy_location == <<"c", "o", "p", "y", "_", "l", "o", "c", "a", "t", "i", "o", "n">>
K_copy_shelfmark == <<"c", "o", "p", "y", "_", "s", "h", "e", "l", "f", "m", "a", "r", "k">>
K_coutnry == <<"c", "o", "u", "t", "n", "r", "y">>
K_place == <<"p", "l", "a", "c", "e">>
K_region == <<"r", "e", "g", "i", "o", "n">>
K_printer_name == <<"p", "r", "i", "n", "t", "e", "r", "_", "n", "a", "m", "e">>
K_colophon == <<"c", "o", "l", "o", "p", "h", "o", "n">>
K_format == <<"f", "o", "r", "m", "a", "t">>
K_heading == <<"h", "e", "a", "d", "i", "n", "g">>
K_imprint == <<"i", "m", "p", "r", "i", "n", "t">>
K_is_lost == <<"i", "s", "_", "l", "o", "s", "t">>
K_pagination == <<"p", "a", "g", "i", "n", "a", "t", "i", "o", "n">>
K_signatures == <<"s", "i", "g", "n", "a", "t", "u", "r", "e", "s">>

\* Item types.
T_book == <<"b", "o", "o", "k">>
T_broadsheet == <<"b", "r", "o", "a", "d", "s", "h", "e", "e", "t">>
T_document == <<"d", "o", "c", "u", "m", "e", "n", "t">>
T_journalArticle == <<"j", "o", "u", "r", "n", "a", "l", "A", "r", "t", "i", "c", "l", "e">>
T_bookSection == <<"b", "o", "o", "k", "S", "e", "c", "t", "i", "o", "n">>
T_webpage == <<"w", "e", "b", "p", "a", "g", "e">>
T_attachment == <<"a", "t", "t", "a", "c", "h", "m", "e", "n", "t">>
T_note == <<"n", "o", "t", "e">>

EmptyRecord == [k \in {} |-> <<>>]

\* A property that is set only when the condition holds.
Opt(cond, rec) == IF cond THEN rec ELSE EmptyRecord

\* record[headers[i]] = values[i] ? values[i].replace(...) : '' for every i:
\* of two columns with one name the later one stays.
recordOf(headers, values) ==
    [h \in {headers[i] : i \in 1..Len(headers)} |->
        LET last == CHOOSE i \in 1..Len(headers) :
                        /\ headers[i] = h
                        /\ \A j \in 1..Len(headers) : headers[j] = h => j <= i
        IN StripDisallowed(values[last])]

\* record.key
Get(record, key) == IF key \in DOMAIN record THEN record[key] ELSE UNDEFINED

\* {"book": "book", "broadsheet": "document"}[t] || "book"
itemTypeOfCsv(t) == IF t = T_broadsheet THEN T_document ELSE T_book

publisherOf(record) ==
    LET printer == Get(record, K_printer_name)
    IN [location |-> Join(FilterSeq(Truthy, <<Get(record, K_coutnry),
                                               Get(record, K_place),
                                               Get(record, K_region)>>),
                          <<",", " ">>),
        name |-> IF printer # UNDEFINED /\ Includes(printer, ";")
                 THEN Join(MapSeq(Trim, Split(printer, ";")), <<",", " ">>)
                 ELSE printer]

extraOf(record) ==
    LET line(key, label) ==
            IF Truthy(Get(record, key)) THEN <<label>> \o Get(record, key) ELSE <<>>
        flag(key, text) == IF Truthy(Get(record, key)) THEN <<text>> ELSE <<>>
    IN Join(FilterSeq(Truthy,
                <<line(K_colophon, "Colophon: "),
                  flag(K_colophon, "Colophon source: ustc"),
                  line(K_format, "Format: "),
                  line(K_heading, "Heading: "),
                  line(K_imprint, "Imprint: "),
                  flag(K_is_lost, "Lost: true"),
                  line(K_pagination, "Pagination: "),
                  line(K_signatures, "Signatures: ")>>),
            <<"\n">>)

subjectsOf(classification) ==
    MapSeq(LAMBDA s : <<"ustc_calssification:">> \o Trim(s),
           Split(classification, ";"))

\* One counter for items and attachments: the item takes the counter's
\* value, its attachment the next one.
attachmentIdOf(counter) == Decimal(counter + 1)

\* The counter advanced once for a row.
counterAfterRow_ItemsOnly(counter) == counter + 1

\* The counter after one row: newId is called twice.
counterAfterRow(counter) == counter + 2

\* Returns [threw, origId, item, counter]: counter is idCounter after the call.
\* record.type.toLowerCase() throws when there is no type column; the item's
\* identifier has been drawn by then.
createZoteroItemFromCsv(headers, values, counter) ==
    LET record == recordOf(headers, values)
        has(key) == Truthy(Get(record, key))
    IN IF Get(record, K_type) = UNDEFINED
       THEN [threw |-> TRUE, counter |-> counter + 1]
       ELSE [threw |-> FALSE,
             counter |-> counterAfterRow(counter),
             origId |-> Get(record, K_sn),
             item |->
                [id |-> Decimal(counter),
                 itemType |-> itemTypeOfCsv(ToLowerCase(Get(record, K_type))),
                 publisher |-> publisherOf(record),
                 extra |-> extraOf(record),
                 attachments |->
                    <<[id |-> attachmentIdOf(counter),
                       title |-> <<"USTC">>,
                       url |-> <<"https://www.ustc.ac.uk/editions/">>
                               \o Get(record, K_sn),
                       linkMode |-> <<"3">>]>>]
                @@ Opt(has(K_title), [shortTitle |-> Get(record, K_title)])
                @@ Opt(has(K_language), [language |-> Get(record, K_language)])
                @@ Opt(has(K_year), [date |-> Get(record, K_year)])
                @@ Opt(has(K_digitised_url), [url |-> Get(record, K_digitised_url)])
                @@ Opt(has(K_author),
                       [authors |-> parsePersonList(Get(record, K_author))])
                @@ Opt(has(K_classification),
                       [subjects |-> subjectsOf(Get(record, K_classification))])
                @@ Opt(has(K_copy_location) /\ has(K_copy_shelfmark),
                       [archive |-> Get(record, K_copy_location),
                        archiveLocation |-> Get(record, K_copy_shelfmark),
                        callNumber |-> Get(record, K_copy_shelfmark)])]

----------------------------------------------------------------------------
(* parseCsvToJson *)

\* Fields counted by the commas alone.
rowAccepted_NaiveSplit(headers, line) ==
    Trim(line) # <<>> /\ Len(Split(line, ",")) = Len(headers)

\* if (!lines[i].trim()) continue; if (values.length !== headers.length) continue
rowAccepted(headers, line) ==
    Trim(line) # <<>> /\ Len(parseCSVLine(line)) = Len(headers)

\* Nothing pruned.
pruneSingletons_Keep(rel) == rel

\* for (const id of singletonIds) delete origIdToZoteroId[id]
pruneSingletons(rel) == [k \in {x \in DOMAIN rel : Len(rel[x]) # 1} |-> rel[k]]

\* The items left in the order of their integer keys.
sortItems_Unsorted(items) == items

\* Object.values(items).sort((a, b) => a.id.localeCompare(b.id)): the values
\* come in the order of their integer keys, which is the order they were put.
sortItems(items) == Sort(compareById, items)

\* The loop of parseCsvToJson from line i on; st = [threw, items, rel, counter].
RECURSIVE parseRows(_, _, _, _)
parseRows(lines, headers, i, st) ==
    IF i > Len(lines) \/ st.threw THEN st
    ELSE IF ~rowAccepted(headers, lines[i]) THEN parseRows(lines, headers, i + 1, st)
    ELSE LET made == createZoteroItemFromCsv(headers, parseCSVLine(lines[i]),
                                             st.counter)
         IN IF made.threw
            THEN [st EXCEPT !.threw = TRUE, !.counter = made.counter]
            ELSE parseRows(lines, headers, i + 1,
                    [threw |-> FALSE,
                     items |-> Append(st.items, made.item),
                     rel |-> IF made.origId \in DOMAIN st.rel
                             THEN [st.rel EXCEPT ![made.origId] =
                                       Append(@, made.item.id)]
                             ELSE st.rel @@ (made.origId :> <<made.item.id>>),
                     counter |-> made.counter])

\* The counter carried over from the call before.
initialCounter_Stale(counter) == counter

\* idCounter = 1 comes first.
initialCounter(counter) == 1

\* Returns [threw, items, relations, counter]: counter is idCounter after the
\* call, whatever it was before.
parseCsvToJson(csvContent, counter) ==
    LET lines == Split(csvContent, "\n")
        headers == MapSeq(Trim, Split(lines[1], ","))
        st == parseRows(lines, headers, 2,
                        [threw |-> FALSE, items |-> <<>>, rel |-> EmptyRecord,
                         counter |-> initialCounter(counter)])
    IN IF st.threw
       THEN [threw |-> TRUE, counter |-> st.counter]
       ELSE [threw |-> FALSE,
             items |-> sortItems(st.items),
             relations |-> pruneSingletons(st.rel),
             counter |-> st.counter]

----------------------------------------------------------------------------
(* convertJsonToRdf, processItem, addPeople *)

\* The RDF text is a sequence of segments: the template's own text, a value
\* put between tags, or a value put inside an attribute.
Lit(s) == <<[k |-> "lit", s |-> <<s>>]>>
Content(v) == <<[k |-> "content", s |-> v]>>
Attr(v) == <<[k |-> "attr", s |-> v]>>

\* item.f, undefined when the property is not there.
Prop(obj, f) == IF f \in DOMAIN obj THEN obj[f] ELSE UNDEFINED

\* if (item.f) for a string property.
Has(obj, f) == f \in DOMAIN obj /\ Truthy(obj[f])

\* if (item.f && item.f.length > 0) for a list property.
HasList(obj, f) == f \in DOMAIN obj /\ Len(obj[f]) > 0

\* `<tag>${escapeXml(v)}</tag>`
Element(open, v, close) == Lit(open) \o Content(escapeXml(v)) \o Lit(close)

\* `<z:itemType>${item.itemType}</z:itemType>`: the value as it is.
itemTypeElement(itemType) ==
    Lit("\n        <z:itemType>") \o Content(itemType) \o Lit("</z:itemType>")

\* itemTypeMap[item.itemType] || 'bib:Document'
rdfTagOf(itemType) ==
    CASE itemType = T_book -> "bib:Book"
      [] itemType = T_journalArticle -> "bib:Article"
      [] itemType = T_bookSection -> "bib:BookSection"
      [] itemType = T_webpage -> "bib:Document"
      [] itemType = T_attachment -> "z:Attachment"
      [] itemType = T_note -> "bib:Memo"
      [] OTHER -> "bib:Document"

addPeople(people, role) ==
    Lit("\n        <") \o Lit(role) \o Lit(">\n            <rdf:Seq>")
    \o Flatten(MapSeq(LAMBDA person :
            Lit("\n                <rdf:li>\n                    <foaf:Person>")
            \o Element("\n                        <foaf:surname>",
                       person.lastName, "</foaf:surname>")
            \o Element("\n                        <foaf:givenName>",
                       person.firstName, "</foaf:givenName>")
            \o Lit("\n                    </foaf:Person>\n                </rdf:li>"),
          people))
    \o Lit("\n            </rdf:Seq>\n        </") \o Lit(role) \o Lit(">")

peopleOf(item, f, role) ==
    IF HasList(item, f) THEN addPeople(Sort(comparePersons, item[f]), role)
    ELSE <<>>

\* if (item.f) itemXml += `<tag>${escapeXml(item.f)}</tag>`
field(item, f, open, close) ==
    IF Has(item, f) THEN Element(open, item[f], close) ELSE <<>>

seriesOf(item) ==
    IF "series" \in DOMAIN item
    THEN Element("\n        <dcterms:isPartOf>\n            <bib:Series>\n                <dc:title>",
                 Prop(item.series, "title"), "</dc:title>")
         \o field(item.series, "number",
                  "\n                <dc:identifier>", "</dc:identifier>")
         \o Lit("\n            </bib:Series>\n        </dcterms:isPartOf>")
    ELSE <<>>

publisherXml(item) ==
    IF "publisher" \in DOMAIN item
    THEN Element("\n        <dc:publisher>\n            <foaf:Organization>\n                <vcard:adr>\n                    <vcard:Address>\n                       <vcard:locality>",
                 Prop(item.publisher, "location"), "</vcard:locality>")
         \o Element("\n                    </vcard:Address>\n                </vcard:adr>\n                <foaf:name>",
                    Prop(item.publisher, "name"), "</foaf:name>")
         \o Lit("\n            </foaf:Organization>\n        </dc:publisher>")
    ELSE <<>>

descriptionOf(item) ==
    IF Has(item, "extra")
    THEN Element("\n        <dc:description>", item.extra, "</dc:description>")
    ELSE field(item, "description", "\n        <dc:description>", "</dc:description>")

subjectsXml(item) ==
    IF HasList(item, "subjects")
    THEN Flatten(MapSeq(LAMBDA subject :
                            Element("\n        <dc:subject>", subject, "</dc:subject>"),
                        Sort(defaultCompare, item.subjects)))
    ELSE <<>>

referencesOf(item) ==
    IF HasList(item, "isReferencedBy")
    THEN Flatten(MapSeq(LAMBDA ref :
                            Lit("\n        <dcterms:isReferencedBy rdf:resource=\"#item_")
                            \o Attr(ref) \o Lit("\"/>"),
                        Sort(defaultCompare, item.isReferencedBy)))
    ELSE <<>>

attachmentLinks(item) ==
    IF HasList(item, "attachments")
    THEN Flatten(MapSeq(LAMBDA attachment :
                            Lit("\n        <link:link rdf:resource=\"#item_")
                            \o Attr(Prop(attachment, "id")) \o Lit("\"/>"),
                        Sort(compareById, item.attachments)))
    ELSE <<>>

attachmentNodes(item) ==
    IF HasList(item, "attachments")
    THEN Flatten(MapSeq(LAMBDA attachment :
            Lit("\n    <z:Attachment rdf:about=\"#item_")
            \o Attr(Prop(attachment, "id"))
            \o Lit("\">\n        <z:itemType>attachment</z:itemType>")
            \o Element("\n        <dc:title>", Prop(attachment, "title"), "</dc:title>")
            \o field(attachment, "url",
                     "\n        <dc:identifier>\n            <dcterms:URI>\n                <rdf:value>",
                     "</rdf:value>\n            </dcterms:URI>\n        </dc:identifier>")
            \o field(attachment, "dateSubmitted",
                     "\n        <dcterms:dateSubmitted>", "</dcterms:dateSubmitted>")
            \o field(attachment, "linkMode", "\n        <z:linkMode>", "</z:linkMode>")
            \o field(attachment, "mimeType", "\n        <link:type>", "</link:type>")
            \o Lit("\n    </z:Attachment>"),
          Sort(compareById, item.attachments)))
    ELSE <<>>

memoNodes(item) ==
    IF HasList(item, "memos")
    THEN Flatten(MapSeq(LAMBDA memo :
            Lit("\n    <bib:Memo rdf:about=\"#item_") \o Attr(Prop(memo, "id"))
            \o Element("\">\n        <rdf:value>", Prop(memo, "value"),
                       "</rdf:value>\n    </bib:Memo>"),
          Sort(compareById, item.memos)))
    ELSE <<>>

processItem(item) ==
    LET tag == rdfTagOf(Prop(item, "itemType"))
    IN Lit("\n    <") \o Lit(tag) \o Lit(" rdf:about=\"#item_")
       \o Attr(Prop(item, "id")) \o Lit("\">")
       \o itemTypeElement(Prop(item, "itemType"))
       \o seriesOf(item)
       \o publisherXml(item)
       \o peopleOf(item, "authors", "bib:authors")
       \o peopleOf(item, "contributors", "bib:contributors")
       \o peopleOf(item, "editors", "bib:editors")
       \o peopleOf(item, "seriesEditors", "z:seriesEditors")
       \o peopleOf(item, "translators", "z:translators")
       \o field(item, "title", "\n        <dc:title>", "</dc:title>")
       \o field(item, "abstract", "\n        <dcterms:abstract>", "</dcterms:abstract>")
       \o field(item, "volume", "\n        <prism:volume>", "</prism:volume>")
       \o field(item, "numberOfVolumes",
                "\n        <z:numberOfVolumes>", "</z:numberOfVolumes>")
       \o field(item, "edition", "\n        <prism:edition>", "</prism:edition>")
       \o field(item, "date", "\n        <dc:date>", "</dc:date>")
       \o field(item, "numPages", "\n        <z:numPages>", "</z:numPages>")
       \o field(item, "language", "\n        <z:language>", "</z:language>")
       \o field(item, "isbn", "\n        <dc:identifier>ISBN ", "</dc:identifier>")
       \o field(item, "shortTitle", "\n        <z:shortTitle>", "</z:shortTitle>")
       \o field(item, "url",
                "\n        <dc:identifier>\n            <dcterms:URI><rdf:value>",
                "</rdf:value></dcterms:URI>\n        </dc:identifier>")
       \o field(item, "dateSubmitted",
                "\n        <dcterms:dateSubmitted>", "</dcterms:dateSubmitted>")
       \o field(item, "archive", "\n        <z:archive>", "</z:archive>")
       \o field(item, "archiveLocation", "\n        <dc:coverage>", "</dc:coverage>")
       \o field(item, "libraryCatalog",
                "\n        <z:libraryCatalog>", "</z:libraryCatalog>")
       \o field(item, "callNumber",
                "\n        <dc:subject>\n           <dcterms:LCC><rdf:value>",
                "</rdf:value></dcterms:LCC>\n        </dc:subject>")
       \o field(item, "rights", "\n        <dc:rights>", "</dc:rights>")
       \o descriptionOf(item)
       \o subjectsXml(item)
       \o referencesOf(item)
       \o attachmentLinks(item)
       \o Lit("\n    </") \o Lit(tag) \o Lit(">")
       \o attachmentNodes(item)
       \o memoNodes(item)

RdfHeader ==
    Lit("<rdf:RDF\n xmlns:rdf=\"http://www.w3.org/1999/02/22-rdf-syntax-ns#\"\n xmlns:z=\"http://www.zotero.org/namespaces/export#\"\n xmlns:dcterms=\"http://purl.org/dc/terms/\"\n xmlns:bib=\"http://purl.org/net/biblio#\"\n xmlns:foaf=\"http://xmlns.com/foaf/0.1/\"\n xmlns:link=\"http://purl.org/rss/1.0/modules/link/\"\n xmlns:dc=\"http://purl.org/dc/elements/1.1/\"\n xmlns:prism=\"http://prismstandard.org/namespaces/1.2/basic/\"\n xmlns:vcard=\"http://nwalsh.com/rdf/vCard#\">")

\* Returns [threw, rdf, counter]: idCounter = 1 comes first; spreading
\* jsonData.items throws when the document has no items.
convertJsonToRdf(data, counter) ==
    IF "items" \notin DOMAIN data
    THEN [threw |-> TRUE, counter |-> 1]
    ELSE [threw |-> FALSE,
          counter |-> 1,
          rdf |-> RdfHeader
                  \o Flatten(MapSeq(processItem, Sort(compareById, data.items)))
                  \o Lit("\n</rdf:RDF>")]

----------------------------------------------------------------------------
(* The script: argument check, dispatch, conversions, writeOutputs *)

DOT_CSV == <<".", "c", "s", "v">>
DOT_RDF == <<".", "r", "d", "f">>

EndsWith(s, suffix) ==
    Len(s) >= Len(suffix)
    /\ SubSeq(s, Len(s) - Len(suffix) + 1, Len(s)) = suffix

isCSVFile(filePath) == EndsWith(ToLowerCase(filePath), DOT_CSV)

\* inputPath.replace(/\.[^/.]+$/, ''): the last dot and what follows it, when
\* something follows and no slash does.
stripExtension(path) ==
    LET dots == {i \in 1..Len(path) : path[i] = "."}
    IN IF dots = {} THEN path
       ELSE LET last == CHOOSE i \in dots : \A j \in dots : j <= i
            IN IF last < Len(path) /\ \A j \in (last + 1)..Len(path) : path[j] # "/"
               THEN SubSeq(path, 1, last - 1)
               ELSE path

outputPath(inputPath) == stripExtension(inputPath) \o DOT_RDF

relationsPath(inputPath) == stripExtension(inputPath) \o <<"_relations.json">>

\* fs.readFileSync(...).replace(filter): a file that is not there throws.
Readable(path) == path \in DOMAIN disk

\* File contents: CSV text as code units; a JSON document as the value it
\* parses to; text that is no JSON document.
TextFile(text) == [kind |-> "text", text |-> text]
JsonFile(value) == [kind |-> "json", value |-> value]
MalformedFile == [kind |-> "malformed"]
RdfFile(rdf) == [kind |-> "rdf", rdf |-> rdf]

\* JSON.stringify(v, null, 2) of an object; of undefined it is undefined.
StringifyDefined(data) == "relations" \in DOMAIN data

\* process.argv[2]
inputPathOf(args) == IF Len(args) >= 3 THEN args[3] ELSE UNDEFINED

\* if (process.argv.length < 2): the interpreter and the script are always
\* there, so a missing input path leaves the length at 2.
usageError(args) == Len(args) < 2

NoData == [none |-> TRUE]

\* Lines 544-555: the argument check and the dispatch.  isCSVFile(undefined)
\* throws outside every try block: the process ends with the uncaught error.
Start ==
    /\ pc = <<"main", "start">>
    /\ IF usageError(argv)
       THEN /\ console' = Append(console, "usage")
            /\ exitCode' = 1
            /\ pc' = <<"main", "exited">>
       ELSE IF inputPathOf(argv) = UNDEFINED
       THEN /\ console' = Append(console, "uncaught TypeError")
            /\ exitCode' = 1
            /\ pc' = <<"main", "exited">>
       ELSE /\ pc' = <<IF isCSVFile(inputPathOf(argv)) THEN "csv" ELSE "json", "read">>
            /\ UNCHANGED <<console, exitCode>>
    /\ UNCHANGED <<argv, disk, idCounter, jsonData, writes, input, output, history>>

\* convertCsvFileToRdf, lines 520-522: read, filter, parseCsvToJson.
ReadAndParseCsv ==
    /\ pc = <<"csv", "read">>
    /\ IF ~Readable(inputPathOf(argv))
       THEN /\ pc' = <<"csv", "catch">>
            /\ UNCHANGED <<jsonData, idCounter>>
       ELSE LET parsed == parseCsvToJson(
                              StripDisallowed(disk[inputPathOf(argv)].text),
                              idCounter)
            IN /\ idCounter' = parsed.counter
               /\ IF parsed.threw
                  THEN /\ pc' = <<"csv", "catch">>
                       /\ UNCHANGED jsonData
                  ELSE /\ pc' = <<"csv", "serialize">>
                       /\ jsonData' = [items |-> parsed.items,
                                       relations |-> parsed.relations]
    /\ UNCHANGED <<argv, disk, console, exitCode, writes, input, output, history>>

\* convertJsonFileToRdf, lines 531-533: read, filter, JSON.parse.
ReadAndParseJson ==
    /\ pc = <<"json", "read">>
    /\ IF ~Readable(inputPathOf(argv)) \/ disk[inputPathOf(argv)].kind # "json"
       THEN /\ pc' = <<"json", "catch">>
            /\ UNCHANGED jsonData
       ELSE /\ pc' = <<"json", "serialize">>
            /\ jsonData' = disk[inputPathOf(argv)].value
    /\ UNCHANGED <<argv, disk, idCounter, console, exitCode, writes, input, output,
                   history>>

\* writeOutputs, lines 506-509: serialize, then write the RDF file.
WriteRdf ==
    \E mode \in {"csv", "json"} :
        /\ pc = <<mode, "serialize">>
        /\ LET done == convertJsonToRdf(jsonData, idCounter)
           IN /\ idCounter' = done.counter
              /\ IF done.threw
                 THEN /\ pc' = <<mode, "catch">>
                      /\ UNCHANGED <<disk, console, writes>>
                 ELSE /\ pc' = <<mode, "relations">>
                      /\ console' = Append(console, "Writing RDF")
                      /\ writes' = writes \o <<"rdf ready", "rdf written">>
                      /\ disk' = [p \in DOMAIN disk \cup {outputPath(inputPathOf(argv))} |->
                                    IF p = outputPath(inputPathOf(argv))
                                    THEN RdfFile(done.rdf) ELSE disk[p]]
        /\ UNCHANGED <<argv, jsonData, exitCode, input, output, history>>

\* writeOutputs, lines 511-515: stringify the relations and write them;
\* writeFileSync refuses undefined.
WriteRelations ==
    \E mode \in {"csv", "json"} :
        /\ pc = <<mode, "relations">>
        /\ IF ~StringifyDefined(jsonData)
           THEN /\ pc' = <<mode, "catch">>
                /\ UNCHANGED <<disk, console, writes, exitCode>>
           ELSE /\ pc' = <<mode, "done">>
                /\ exitCode' = 0
                /\ console' = console \o <<"Writing relations", "Successfully converted">>
                /\ writes' = writes \o <<"relations ready", "relations written">>
                /\ disk' = [p \in DOMAIN disk \cup {relationsPath(inputPathOf(argv))} |->
                              IF p = relationsPath(inputPathOf(argv))
                              THEN JsonFile(jsonData.relations) ELSE disk[p]]
        /\ UNCHANGED <<argv, idCounter, jsonData, input, output, history>>

\* The catch blocks, lines 524-526 and 535-537: log, do not rethrow.
Catch ==
    \E mode \in {"csv", "json"} :
        /\ pc = <<mode, "catch">>
        /\ pc' = <<mode, "failed">>
        /\ console' = Append(console, "Error converting")
        /\ exitCode' = 0
        /\ UNCHANGED <<argv, disk, idCounter, jsonData, writes, input, output, history>>

Next == Start \/ ReadAndParseCsv \/ ReadAndParseJson \/ WriteRdf
        \/ WriteRelations \/ Catch

----------------------------------------------------------------------------
(* Inputs *)

MaxFileRows == 2
MaxMixedRows == 4
MaxRows == 6
MaxCalls == 4
MaxFields == 2
MaxFieldLen == 2
MaxPersonLen == 5
MaxValueLen == 2

HeaderSnType == <<"s", "n", ",", "t", "y", "p", "e">>
HeaderTypeSn == <<"t", "y", "p", "e", ",", " ", "s", "n">>
HeaderSn == <<"s", "n">>
Headers == {HeaderSnType, HeaderTypeSn, HeaderSn}

Row42 == <<"4", "2", ",", "b", "o", "o", "k">>
Row7 == <<"7", ",", DQ, "B", ",", "k", DQ>>
RowBlank == <<" ">>
RowShort == <<"4", "2">>
RowLines == {Row42, Row7, RowBlank, RowShort}

\* CSV texts: a header line and up to n data lines.
CsvTexts(lines, n) ==
    {Join(<<h>> \o rows, <<"\n">>) : h \in Headers, rows \in SeqUpTo(lines, n)}

CsvInputs(n) == CsvTexts(RowLines, n)

\* The texts parseCsvToJson is called on: short ones with every kind of line,
\* long ones without the one-field line.
ParseInputs ==
    CsvInputs(MaxMixedRows) \cup CsvTexts({Row42, Row7, RowBlank}, MaxRows)

PathCsv == <<"a", ".", "c", "s", "v">>
PathCsvUpper == <<"a", ".", "C", "S", "V">>
PathJson == <<"a", ".", "j", "s", "o", "n">>
PathBare == <<"a">>
CsvPaths == {PathCsv, PathCsvUpper}
JsonPaths == {PathJson, PathBare}

ItemA == [id |-> <<"2">>, itemType |-> T_book, title |-> <<"a", "&">>]
ItemB == [id |-> <<"1">>, itemType |-> T_note,
          memos |-> <<[id |-> <<"3">>, value |-> <<"<">>]>>]

JsonDocs ==
    {[items |-> <<ItemA, ItemB>>, relations |-> EmptyRecord],
     [items |-> <<>>, relations |-> (<<"4">> :> <<<<"1">>, <<"2">>>>)],
     [items |-> <<ItemA>>],
     [relations |-> EmptyRecord]}

\* The file system before the run: the input file missing, or holding one of
\* the contents.
DisksFor(path) ==
    {EmptyRecord}
    \cup (IF path \in CsvPaths
          THEN {(path :> TextFile(csv)) : csv \in CsvInputs(MaxFileRows)}
               \cup {(path :> TextFile(<<NUL>> \o csv)) : csv \in CsvInputs(1)}
          ELSE {(path :> JsonFile(doc)) : doc \in JsonDocs}
               \cup {(path :> MalformedFile)})

Init ==
    /\ \E path \in CsvPaths \cup JsonPaths \cup {UNDEFINED} :
          /\ argv = (IF path = UNDEFINED THEN <<<<"node">>, <<"script">>>>
                     ELSE <<<<"node">>, <<"script">>, path>>)
          /\ disk \in (IF path = UNDEFINED THEN {EmptyRecord} ELSE DisksFor(path))
    /\ pc = <<"main", "start">>
    /\ idCounter = 1
    /\ jsonData = NoData
    /\ console = <<>>
    /\ exitCode = "running"
    /\ writes = <<>>
    /\ input = NoData
    /\ output = NoData
    /\ history = NoData

Spec == Init /\ [][Next]_vars

----------------------------------------------------------------------------
(* parseCsvToJson called on its own *)

InitParse ==
    /\ input \in ParseInputs
    /\ pc = <<"parseCsvToJson", "call">>
    /\ idCounter = 1
    /\ output = NoData
    /\ argv = <<>> /\ disk = EmptyRecord /\ jsonData = NoData /\ console = <<>>
    /\ exitCode = "running" /\ writes = <<>> /\ history = NoData

CallParseCsvToJson ==
    /\ pc = <<"parseCsvToJson", "call">>
    /\ LET r == parseCsvToJson(input, idCounter)
       IN /\ output' = r
          /\ idCounter' = r.counter
          /\ pc' = <<"parseCsvToJson", IF r.threw THEN "threw" ELSE "returned">>
    /\ UNCHANGED <<argv, disk, jsonData, console, exitCode, writes, input, history>>

NextParse == CallParseCsvToJson

SpecParse == InitParse /\ [][NextParse]_vars

----------------------------------------------------------------------------
(* Properties of parseCsvToJson *)

Returned == pc = <<"parseCsvToJson", "returned">>

HeaderOf(csv) == MapSeq(Trim, Split(Head(Split(csv, <<"\n">>[1])), ","))

DataLines(csv) == Tail(Split(csv, <<"\n">>[1]))

IsBlank(line) == \A i \in 1..Len(line) : IsSpace(line[i])

\* The data lines that are not blank and whose tokenized field count is the
\* header's field count, in the order of the text.
MatchingLines(csv) ==
    LET n == Len(HeaderOf(csv))
    IN SelectSeq(DataLines(csv),
                 LAMBDA line : ~IsBlank(line) /\ Len(parseCSVLine(line)) = n)

\* The sn of every accepted row, in row order: the field under the sn column.
AcceptedSns(csv) ==
    LET h == HeaderOf(csv)
        column == CHOOSE i \in 1..Len(h) : h[i] = K_sn
    IN MapSeq(LAMBDA line : parseCSVLine(line)[column], MatchingLines(csv))

\* The value of a decimal digit string.
RECURSIVE DecimalValue(_)
DecimalValue(s) ==
    IF s = <<>> THEN 0
    ELSE 10 * DecimalValue(SubSeq(s, 1, Len(s) - 1))
         + (CHOOSE d \in 0..9 : Decimal(d) = <<s[Len(s)]>>)

\* C1: when parseCsvToJson returns, the number of items equals the number of
\* non-blank data lines whose tokenized field count equals the header's;
\* blank and mismatching lines add nothing and do not stop later lines.
C1_ItemCount == Returned => Len(output.items) = Len(MatchingLines(input))

\* C1 witness: a returned parse of a text with a blank line and a mismatching
\* line followed by accepted rows.
C1_Witness ==
    /\ Returned
    /\ Len(output.items) >= 2
    /\ \E i, j, k \in 1..Len(DataLines(input)) :
          /\ i < k /\ j < k
          /\ IsBlank(DataLines(input)[i])
          /\ DataLines(input)[j] = RowShort
          /\ DataLines(input)[k] \in {Row42, Row7}
          /\ Len(HeaderOf(input)) = 2

\* C2 as stated: the identifiers are pairwise distinct and the returned
\* collection is in ascending order of the identifiers' integer values, which
\* is the order of the rows.
C2_SortedAsIntegers ==
    Returned =>
        \A i, j \in 1..Len(output.items) :
            i < j => DecimalValue(output.items[i].id) < DecimalValue(output.items[j].id)

\* C2 amended: the identifiers are pairwise distinct, they grow with the rows
\* (the item with the k-th smallest integer identifier is the k-th accepted
\* row), and the returned collection is in ascending order of the identifiers
\* compared as strings by localeCompare, which is the order of the rows
\* exactly when there are at most five items.
C2_SortedAsStrings ==
    Returned =>
        LET items == output.items
            byValue == Sort(compareByNumericId, items)
            sns == AcceptedSns(input)
        IN /\ \A i, j \in 1..Len(items) : i # j => items[i].id # items[j].id
           /\ Len(byValue) = Len(sns)
           /\ \A k \in 1..Len(byValue) :
                 /\ byValue[k].attachments[1].url
                        = <<"https://www.ustc.ac.uk/editions/">> \o sns[k]
                 /\ k > 1 => DecimalValue(byValue[k - 1].id) < DecimalValue(byValue[k].id)
           /\ \A i, j \in 1..Len(items) :
                 i < j => localeCompare(items[i].id, items[j].id) < 0
           /\ Len(items) <= 5 <=> items = byValue

\* C2 witness: a returned parse whose identifiers reach two digits, so that
\* string order and integer order differ.
C2_Witness ==
    /\ Returned
    /\ \E i \in 1..Len(output.items) : Len(output.items[i].id) = 2
    /\ \E i \in 1..Len(output.items) : output.items[i].id = <<"3">>

\* The relations table the accepted rows call for: the item identifier of the
\* k-th accepted row is the (2k-1)-th value of the counter.
ExpectedRelations(csv) ==
    LET sns == AcceptedSns(csv)
        rowsOf(sn) == {k \in 1..Len(sns) : sns[k] = sn}
        idsOf(sn) == MapSeq(LAMBDA k : Decimal(2 * k - 1),
                            SelectSeq([k \in 1..Len(sns) |-> k],
                                      LAMBDA k : sns[k] = sn))
    IN [sn \in {sns[k] : k \in {k \in 1..Len(sns) : Cardinality(rowsOf(sns[k])) >= 2}}
            |-> idsOf(sn)]

\* C3: after parseCsvToJson returns, the relations table has a key for an sn
\* exactly when two or more accepted rows carry it, the value lists the item
\* identifiers of those rows in row order, and no value has length 1.
C3_Relations ==
    Returned =>
        /\ output.relations = ExpectedRelations(input)
        /\ \A sn \in DOMAIN output.relations : Len(output.relations[sn]) # 1

\* C3 witness: a returned parse with one sn shared by three rows and another
\* sn carried by a single row, which has no entry.
C3_Witness ==
    /\ Returned
    /\ \E sn \in DOMAIN output.relations : Len(output.relations[sn]) = 3
    /\ \E k \in 1..Len(AcceptedSns(input)) :
          AcceptedSns(input)[k] \notin DOMAIN output.relations

\* The scenario of C4: three accepted rows with sn 42, 42 and 7.
Scenario42427 == Returned /\ AcceptedSns(input) = <<<<"4", "2">>, <<"4", "2">>, <<"7">>>>

\* C4 as stated: in the scenario the relations table is {"42": ["1", "2"]}.
C4_Ids1And2 ==
    Scenario42427 => output.relations = (<<"4", "2">> :> <<<<"1">>, <<"2">>>>)

\* C4 amended: in the scenario the relations table is {"42": ["1", "3"]}: the
\* attachment of the first row takes the identifier 2.  There is no entry
\* for 7.
C4_Ids1And3 ==
    Scenario42427 =>
        /\ output.relations = (<<"4", "2">> :> <<<<"1">>, <<"3">>>>)
        /\ output.items[1].attachments[1].id = <<"2">>

\* C4 witness: the scenario, reached with the three rows one after another.
C4_Witness == Scenario42427 /\ DataLines(input) = <<Row42, Row42, Row7>>

----------------------------------------------------------------------------
(* Conversions repeated in one process *)

RepeatInputs ==
    {Join(<<HeaderSnType, Row42, Row42>>, <<"\n">>),
     Join(<<HeaderSnType, Row7, RowBlank, Row42>>, <<"\n">>),
     Join(<<HeaderSn, RowShort>>, <<"\n">>)}

InitRepeat ==
    /\ pc = <<"repeat", 0, "start">>
    /\ idCounter = 1
    /\ history = [csv \in RepeatInputs |-> [calls |-> 0]]
    /\ input = <<>>
    /\ output = NoData
    /\ argv = <<>> /\ disk = EmptyRecord /\ jsonData = NoData /\ console = <<>>
    /\ exitCode = "running" /\ writes = <<>>

\* One more call of parseCsvToJson; the first result for each text is kept.
RepeatParseCsvToJson ==
    \E csv \in RepeatInputs :
        /\ pc[2] < MaxCalls
        /\ LET r == parseCsvToJson(csv, idCounter)
           IN /\ output' = r
              /\ idCounter' = r.counter
              /\ history' = [history EXCEPT ![csv] =
                                IF @.calls = 0 THEN [calls |-> 1, first |-> r]
                                ELSE [@ EXCEPT !.calls = @ + 1]]
        /\ input' = csv
        /\ pc' = <<"repeat", pc[2] + 1, "parse">>
        /\ UNCHANGED <<argv, disk, jsonData, console, exitCode, writes>>

\* One more call of convertJsonToRdf.
RepeatConvertJsonToRdf ==
    \E doc \in JsonDocs :
        /\ pc[2] < MaxCalls
        /\ idCounter' = convertJsonToRdf(doc, idCounter).counter
        /\ jsonData' = doc
        /\ pc' = <<"repeat", pc[2] + 1, "serialize">>
        /\ UNCHANGED <<argv, disk, console, exitCode, writes, input, output, history>>

NextRepeat == RepeatParseCsvToJson \/ RepeatConvertJsonToRdf

SpecRepeat == InitRepeat /\ [][NextRepeat]_vars

\* C8: whatever conversions ran before in the process, parsing a text again
\* gives the item identifiers, attachment identifiers and relations table of
\* the first time, and the first item's identifier is the counter's initial
\* value.
C8_Reproducible ==
    pc[3] = "parse" =>
        /\ output = history[input].first
        /\ ~output.threw /\ output.items # <<>> => output.items[1].id = <<"1">>

\* C8 witness: a text parsed for the second time after another text was
\* parsed and a serialization ran, with items drawn both times.
C8_Witness ==
    /\ pc[3] = "parse"
    /\ history[input].calls >= 2
    /\ ~output.threw /\ Len(output.items) >= 2
    /\ \E other \in RepeatInputs \ {input} : history[other].calls >= 1
    /\ jsonData # NoData

----------------------------------------------------------------------------
(* parseCSVLine called on an encoded line *)

CsvAlphabet == {",", DQ, "a"}

\* A field as a CSV writer puts it on a line: wrapped in double quotes, with
\* every double quote doubled, when it holds a comma or a double quote.
encodeField(f) ==
    IF Includes(f, ",") \/ Includes(f, DQ)
    THEN <<DQ>> \o ReplaceAll(f, DQ, <<DQ, DQ>>) \o <<DQ>>
    ELSE f

encodeCsvLine(fields) == Join(MapSeq(encodeField, fields), <<",">>)

InitCsvLine ==
    /\ \E fields \in Seq1UpTo(SeqUpTo(CsvAlphabet, MaxFieldLen), MaxFields) :
          input = [fields |-> fields, line |-> encodeCsvLine(fields)]
    /\ pc = <<"parseCSVLine", "call">>
    /\ output = NoData
    /\ idCounter = 1
    /\ argv = <<>> /\ disk = EmptyRecord /\ jsonData = NoData /\ console = <<>>
    /\ exitCode = "running" /\ writes = <<>> /\ history = NoData

CallParseCSVLine ==
    /\ pc = <<"parseCSVLine", "call">>
    /\ output' = parseCSVLine(input.line)
    /\ pc' = <<"parseCSVLine", "returned">>
    /\ UNCHANGED <<argv, disk, idCounter, jsonData, console, exitCode, writes, input,
                   history>>

NextCsvLine == CallParseCSVLine

SpecCsvLine == InitCsvLine /\ [][NextCsvLine]_vars

\* C9: parseCSVLine of the encoded line is the list of fields that was
\* encoded: a comma inside a quoted field does not split it, and a doubled
\* quote inside a quoted field is one quote character.
C9_RoundTrip ==
    pc = <<"parseCSVLine", "returned">> => output = input.fields

\* C9 witness: a returned call on two fields, one holding a comma and a
\* double quote.
C9_Witness ==
    /\ pc = <<"parseCSVLine", "returned">>
    /\ Len(input.fields) = 2
    /\ input.fields[1] = <<",", DQ>>
    /\ output[1] = <<",", DQ>>

----------------------------------------------------------------------------
(* parsePersonList called on its own *)

PersonAlphabet == {",", ";", " ", "a", "b"}

InitPersons ==
    /\ input \in SeqUpTo(PersonAlphabet, MaxPersonLen)
    /\ pc = <<"parsePersonList", "call">>
    /\ output = NoData
    /\ idCounter = 1
    /\ argv = <<>> /\ disk = EmptyRecord /\ jsonData = NoData /\ console = <<>>
    /\ exitCode = "running" /\ writes = <<>> /\ history = NoData

CallParsePersonList ==
    /\ pc = <<"parsePersonList", "call">>
    /\ output' = parsePersonList(input)
    /\ pc' = <<"parsePersonList", "returned">>
    /\ UNCHANGED <<argv, disk, idCounter, jsonData, console, exitCode, writes, input,
                   history>>

NextPersons == CallParsePersonList

SpecPersons == InitPersons /\ [][NextPersons]_vars

\* The index of the first comma of an entry that has one.
FirstComma(entry) ==
    CHOOSE i \in 1..Len(entry) :
        entry[i] = "," /\ \A j \in 1..(i - 1) : entry[j] # ","

\* The person an entry stands for: split around the first comma.
PersonAroundFirstComma(entry) ==
    IF Includes(entry, ",")
    THEN [lastName |-> Trim(SubSeq(entry, 1, FirstComma(entry) - 1)),
          firstName |-> Trim(SubSeq(entry, FirstComma(entry) + 1, Len(entry)))]
    ELSE [lastName |-> entry, firstName |-> <<>>]

\* C10: the persons are those of the non-empty trimmed entries between the
\* semicolons, in order; an entry with a comma (or several) gives the text
\* before the first comma as lastName and everything after the first comma
\* as firstName, both trimmed; an entry without a comma gives itself as
\* lastName and an empty firstName.
C10_FirstCommaSplit ==
    pc = <<"parsePersonList", "returned">> =>
        output = MapSeq(PersonAroundFirstComma,
                        SelectSeq(MapSeq(Trim, Split(input, ";")),
                                  LAMBDA entry : entry # <<>>))

----------------------------------------------------------------------------
(* convertJsonToRdf called on one item *)

XmlAlphabet == {"&", "<", ">", DQ, "'", NUL, "a"}

StringFields ==
    {"id", "itemType", "title", "shortTitle", "abstract", "date", "language",
     "libraryCatalog", "numPages", "numberOfVolumes", "edition", "extra",
     "description", "volume", "archive", "archiveLocation", "callNumber",
     "rights", "isbn", "dateSubmitted", "url"}

BaseItem == [id |-> <<"1">>, itemType |-> T_book]

PersonFields == {"authors", "contributors", "editors", "seriesEditors", "translators"}

\* Items that carry the value v in one place.
ItemsWith(v) ==
    {(f :> v) @@ BaseItem : f \in StringFields}
    \cup {(f :> <<[lastName |-> <<"a">>, firstName |-> <<>>],
                  [lastName |-> v, firstName |-> v]>>) @@ BaseItem : f \in PersonFields}
    \cup {[series |-> [title |-> v, number |-> v]] @@ BaseItem,
          [series |-> [title |-> v]] @@ BaseItem,
          [publisher |-> [name |-> v, location |-> v]] @@ BaseItem,
          [extra |-> v, description |-> <<"a">>] @@ BaseItem,
          [subjects |-> <<<<"a">>, v>>] @@ BaseItem,
          [isReferencedBy |-> <<<<"2">>, v>>] @@ BaseItem,
          [attachments |-> <<[id |-> <<"3">>, title |-> <<"a">>],
                             [id |-> <<"2">>, title |-> v, url |-> v,
                              dateSubmitted |-> v, linkMode |-> v,
                              mimeType |-> v]>>] @@ BaseItem,
          [memos |-> <<[id |-> <<"3">>, value |-> v],
                       [id |-> <<"2">>, value |-> <<"a">>]>>] @@ BaseItem}

SerializeInputs == UNION {ItemsWith(v) : v \in SeqUpTo(XmlAlphabet, MaxValueLen)}

InitSerialize ==
    /\ input \in SerializeInputs
    /\ pc = <<"convertJsonToRdf", "call">>
    /\ output = NoData
    /\ idCounter = 1
    /\ argv = <<>> /\ disk = EmptyRecord /\ jsonData = NoData /\ console = <<>>
    /\ exitCode = "running" /\ writes = <<>> /\ history = NoData

CallConvertJsonToRdf ==
    /\ pc = <<"convertJsonToRdf", "call">>
    /\ LET r == convertJsonToRdf([items |-> <<input>>, relations |-> EmptyRecord],
                                 idCounter)
       IN /\ output' = r
          /\ idCounter' = r.counter
    /\ pc' = <<"convertJsonToRdf", "returned">>
    /\ UNCHANGED <<argv, disk, jsonData, console, exitCode, writes, input, history>>

NextSerialize == CallConvertJsonToRdf

SpecSerialize == InitSerialize /\ [][NextSerialize]_vars

Entities == {AMP, LT, GT, QUOT, APOS}

\* No raw markup character and no disallowed character: every ampersand
\* starts one of the five entities.
WellEscaped(s) ==
    \A i \in 1..Len(s) :
        /\ s[i] \notin {"<", ">", DQ, "'", NUL}
        /\ s[i] = "&" =>
              \E e \in Entities :
                  i + Len(e) - 1 <= Len(s) /\ SubSeq(s, i, i + Len(e) - 1) = e

\* C5: every value the serializer puts between tags, the itemType value
\* included, is escaped: it holds no raw & < > " ' and no disallowed
\* character.
C5_ContentEscaped ==
    pc = <<"convertJsonToRdf", "returned">> =>
        \A i \in 1..Len(output.rdf) :
            output.rdf[i].k = "content" => WellEscaped(output.rdf[i].s)

----------------------------------------------------------------------------
(* Properties of the script *)

OutputsOf(args) == {outputPath(inputPathOf(args)), relationsPath(inputPathOf(args))}

\* C6: a conversion that fails is caught once, logged and not rethrown, and
\* has written no output file; and no file is written before both the RDF
\* text and the relations text are ready.
C6_AtomicFailure ==
    /\ pc[2] \in {"catch", "failed"} => DOMAIN disk \cap OutputsOf(argv) = {}
    /\ pc[2] = "failed" =>
          /\ Cardinality({i \in 1..Len(console) : console[i] = "Error converting"}) = 1
          /\ exitCode = 0
    /\ \A i \in 1..Len(writes) :
          writes[i] \in {"rdf written", "relations written"} =>
              \E j, k \in 1..(i - 1) :
                  writes[j] = "rdf ready" /\ writes[k] = "relations ready"

\* C7: started without the input path, the script prints the usage message
\* and exits with a non-zero status; no conversion is entered and no file is
\* read or written.
C7_UsageMessage ==
    Len(argv) < 3 =>
        /\ pc[1] = "main"
        /\ disk = EmptyRecord
        /\ pc[2] = "exited" => console = <<"usage">> /\ exitCode = 1

=============================================================================
